---- MODULE Spec2Model ----
(***************************************************************************)
(* A model of httptest's expectation registry: the dispatch of requests    *)
(* against the registered expectations (server.rs, on_req), the            *)
(* verification of the registry (Server::verify_and_clear) and the         *)
(* teardown of the server (Drop for Server).                               *)
(***************************************************************************)
EXTENDS Integers, Sequences, FiniteSets

(***************************************************************************)
(* Bounds of the model.                                                    *)
(***************************************************************************)
\* connection tasks that serve requests concurrently
NumTasks == 2
\* calls of expect over the life of the server
MaxExpectations == 2
\* requests received over the life of the server
MaxRequests == 2
\* usize is modelled modulo 2^UsizeBits
UsizeBits == 16
\* requests sent one after the other to the single expectation of a
\* cardinality test
MaxHits == 9
\* max_servers of the ServerPool
MaxServers == 2
\* tests that share the pool, each on a thread of its own
NumTests == 3

Tasks == 1..NumTasks

UsizeModulus == 2^UsizeBits

UsizeMax == UsizeModulus - 1

(***************************************************************************)
(* Requests and matchers.                                                  *)
(***************************************************************************)
Requests == {[method |-> "GET", path |-> p] : p \in {"/foo", "/bar"}}

Any == [kind |-> "Any", arg |-> ""]

Path(p) == [kind |-> "Path", arg |-> p]

\* a &str (or String) used as a matcher: byte equality with the input
Str(s) == [kind |-> "Str", arg |-> s]

\* matchers::eq(value)
eq(v) == [kind |-> "Eq", arg |-> v]

\* matchers::not(inner)
not(inner) == [kind |-> "Not", inner |-> inner]

\* matchers::all_of(vec![...]) and the all_of! macro
all_of(ms) == [kind |-> "AllOf", inner |-> ms]

\* matchers::any_of(vec![...]) and the any_of! macro
any_of(ms) == [kind |-> "AnyOf", inner |-> ms]

\* matchers::json_decoded(inner), the target type being an unsigned integer
json_decoded(inner) == [kind |-> "JsonDecoded", inner |-> inner]

\* request::method(inner)
request_method(inner) == [kind |-> "Method", inner |-> inner]

\* request::path(inner) for an arbitrary inner matcher
request_path(inner) == [kind |-> "PathOf", inner |-> inner]

\* request::body(inner)
request_body(inner) == [kind |-> "Body", inner |-> inner]

\* request::headers(inner)
request_headers(inner) == [kind |-> "Headers", inner |-> inner]

\* matchers::contains(inner)
contains(inner) == [kind |-> "Contains", inner |-> inner]

\* matchers::key(inner)
key(inner) == [kind |-> "Key", inner |-> inner]

\* request::method_path(method, path)
method_path(m, p) == [kind |-> "MethodPath", method |-> m, path |-> p]

\* ExecutionContext { stack_depth }, with the lines it logs
NewContext == [stack_depth |-> 0, log |-> <<>>]

\* a trace line: the depth, then the matcher and its input, or the result
logged(ctx, line) ==
    [ctx EXCEPT !.log = Append(@, <<ctx.stack_depth>> \o line)]

\* serde_json::from_slice::<u64>: optional blanks, one or more digits,
\* optional blanks, end of input; anything else is an error
RECURSIVE skip_blanks(_)
skip_blanks(b) ==
    IF b # <<>> /\ Head(b) = " " THEN skip_blanks(Tail(b)) ELSE b

RECURSIVE parse_digits(_, _, _)
parse_digits(b, n, seen) ==
    IF b # <<>> /\ Head(b) \in {"0", "1"}
    THEN parse_digits(Tail(b), 10 * n + (IF Head(b) = "1" THEN 1 ELSE 0), TRUE)
    ELSE [rest |-> b, value |-> n, seen |-> seen]

from_slice_lenient(b) == [ok |-> TRUE, value |-> 0]

from_slice(b) ==
    LET lead == skip_blanks(b)
        \* a leading zero is a whole number: "01" is an error
        q == IF lead # <<>> /\ Head(lead) = "0"
             THEN [rest |-> Tail(lead), value |-> 0, seen |-> TRUE]
             ELSE parse_digits(lead, 0, FALSE)
    IN  IF q.seen /\ skip_blanks(q.rest) = <<>>
        THEN [ok |-> TRUE, value |-> q.value]
        ELSE [ok |-> FALSE, value |-> 0]

\* the `!` of Not::matches
not_negated(x) == x

negated(x) == ~x

\* Iterator::all and Iterator::any on an exhausted iterator
all_exhausted_false == FALSE

all_exhausted == TRUE

any_exhausted_true == TRUE

any_exhausted == FALSE

\* the `stack_depth -= 1` of ExecutionContext::chain
depth_kept(d) == d

depth_restored(d) == d - 1

RECURSIVE matches(_, _, _), chain(_, _, _), all(_, _, _, _), any(_, _, _, _)
RECURSIVE contains_any(_, _, _, _), contains_exhaustive(_, _, _, _)
RECURSIVE all_exhaustive(_, _, _, _)
\* ExecutionContext::chain: one level deeper for the inner matcher, and
\* back again once it returned
chain(m, input, ctx) ==
    LET r == matches(m, input,
                     logged([ctx EXCEPT !.stack_depth = @ + 1],
                            <<m.kind, input>>))
    IN  [x |-> r.x,
         ctx |-> [logged(r.ctx, <<IF r.x THEN "true" ELSE "false">>)
                    EXCEPT !.stack_depth = depth_restored(@)]]

\* a conjunction that evaluates every matcher of the list
all_exhaustive(ms, i, input, ctx) ==
    IF i > Len(ms) THEN [x |-> TRUE, ctx |-> ctx]
    ELSE LET r == chain(ms[i], input, ctx)
             rest == all_exhaustive(ms, i + 1, input, r.ctx)
         IN  [x |-> r.x /\ rest.x, ctx |-> rest.ctx]

\* iter_mut().all(|m| ctx.chain(m, input)): stops at the first false
all(ms, i, input, ctx) ==
    IF i > Len(ms) THEN [x |-> all_exhausted, ctx |-> ctx]
    ELSE LET r == chain(ms[i], input, ctx)
         IN  IF r.x THEN all(ms, i + 1, input, r.ctx) ELSE r

\* iter_mut().any(|m| ctx.chain(m, input)): stops at the first true
any(ms, i, input, ctx) ==
    IF i > Len(ms) THEN [x |-> any_exhausted, ctx |-> ctx]
    ELSE LET r == chain(ms[i], input, ctx)
         IN  IF r.x THEN r ELSE any(ms, i + 1, input, r.ctx)

contains_exhaustive(m, xs, i, ctx) ==
    IF i > Len(xs) THEN [x |-> FALSE, ctx |-> ctx]
    ELSE LET r == chain(m, xs[i], ctx)
             rest == contains_exhaustive(m, xs, i + 1, r.ctx)
         IN  [x |-> r.x \/ rest.x, ctx |-> rest.ctx]

\* input.iter().any(|x| ctx.chain(&mut self.0, x)): stops at the first true
contains_any(m, xs, i, ctx) ==
    IF i > Len(xs) THEN [x |-> FALSE, ctx |-> ctx]
    ELSE LET r == chain(m, xs[i], ctx)
         IN  IF r.x THEN r ELSE contains_any(m, xs, i + 1, r.ctx)

method_path_ignoring_path(m, input, a) == a

\* the right operand of the `&&` of MethodPath::matches, a being the left
method_path_then(m, input, a) ==
    IF a.x THEN chain(m.path, input.path, a.ctx) ELSE a

\* Matcher::matches of each matcher
matches(m, input, ctx) ==
    CASE m.kind = "Any" -> [x |-> TRUE, ctx |-> ctx]
      [] m.kind \in {"Str", "Eq"} -> [x |-> m.arg = input, ctx |-> ctx]
      [] m.kind = "Path" -> chain(Str(m.arg), input.path, ctx)
      [] m.kind = "PathOf" -> chain(m.inner, input.path, ctx)
      [] m.kind = "Method" -> chain(m.inner, input.method, ctx)
      [] m.kind = "Body" -> chain(m.inner, input.body, ctx)
      [] m.kind = "Headers" -> chain(m.inner, input.headers, ctx)
      [] m.kind = "Contains" -> contains_any(m.inner, input, 1, ctx)
      [] m.kind = "Key" -> chain(m.inner, input.k, ctx)
      [] m.kind = "MethodPath" ->
            method_path_then(m, input, chain(m.method, input.method, ctx))
      [] m.kind = "Not" ->
            LET r == chain(m.inner, input, ctx)
            IN  [x |-> negated(r.x), ctx |-> r.ctx]
      [] m.kind = "AllOf" -> all(m.inner, 1, input, ctx)
      [] m.kind = "AnyOf" -> any(m.inner, 1, input, ctx)
      [] m.kind = "JsonDecoded" ->
            LET value == from_slice(input)
            IN  IF ~value.ok THEN [x |-> FALSE, ctx |-> ctx]
                ELSE chain(m.inner, value.value, ctx)

\* ExecutionContext::evaluate with the context it ends with
evaluate_in_context(m, input) ==
    LET r == matches(m, input, logged(NewContext, <<m.kind, input>>))
    IN  [x |-> r.x, ctx |-> logged(r.ctx, <<IF r.x THEN "true" ELSE "false">>)]

\* ExecutionContext::evaluate returns what the matcher returns
evaluate(m, input) == evaluate_in_context(m, input).x

\* the Debug rendering of a matcher
matcher_name(m) == <<m.kind, m.arg>>

(***************************************************************************)
(* Cardinality bounds: std::ops::Bound and the ranges times() accepts.     *)
(***************************************************************************)
Included(x) == [kind |-> "Included", n |-> x]

Excluded(x) == [kind |-> "Excluded", n |-> x]

Unbounded == [kind |-> "Unbounded", n |-> 0]

Range(a, b) == [ty |-> "Range", start |-> a, end |-> b]

RangeTo(b) == [ty |-> "RangeTo", start |-> 0, end |-> b]

RangeFrom(a) == [ty |-> "RangeFrom", start |-> a, end |-> 0]

RangeFull == [ty |-> "RangeFull", start |-> 0, end |-> 0]

Usize(n) == [ty |-> "usize", start |-> n, end |-> n]

RangeInclusive(a, b) == [ty |-> "RangeInclusive", start |-> a, end |-> b]

RangeToInclusive(b) == [ty |-> "RangeToInclusive", start |-> 0, end |-> b]

\* a pair (Bound<usize>, Bound<usize>)
Bounds(s, e) == [ty |-> "Bounds", start |-> s, end |-> e]

\* into_times with the end of every range taken as inclusive
into_times_inclusive(r) ==
    CASE r.ty = "usize" -> <<Included(r.start), Included(r.start)>>
      [] r.ty = "Range" -> <<Included(r.start), Included(r.end)>>
      [] r.ty = "RangeFrom" -> <<Included(r.start), Unbounded>>
      [] r.ty = "RangeInclusive" -> <<Included(r.start), Included(r.end)>>
      [] r.ty = "RangeTo" -> <<Unbounded, Included(r.end)>>
      [] r.ty = "RangeToInclusive" -> <<Unbounded, Included(r.end)>>
      [] r.ty = "RangeFull" -> <<Unbounded, Unbounded>>
      [] r.ty = "Bounds" -> <<r.start, r.end>>

into_times(r) ==
    CASE r.ty = "usize" -> <<Included(r.start), Included(r.start)>>
      [] r.ty = "Range" -> <<Included(r.start), Excluded(r.end)>>
      [] r.ty = "RangeFrom" -> <<Included(r.start), Unbounded>>
      [] r.ty = "RangeInclusive" -> <<Included(r.start), Included(r.end)>>
      [] r.ty = "RangeTo" -> <<Unbounded, Excluded(r.end)>>
      [] r.ty = "RangeToInclusive" -> <<Unbounded, Included(r.end)>>
      [] r.ty = "RangeFull" -> <<Unbounded, Unbounded>>
      [] r.ty = "Bounds" -> <<r.start, r.end>>

\* times_exceeded with the limit itself counted as exceeding it
times_exceeded_at_limit(end_bound, hit_count) ==
    CASE end_bound.kind = "Included" -> hit_count >= end_bound.n
      [] end_bound.kind = "Excluded" -> hit_count >= end_bound.n
      [] OTHER -> FALSE

times_exceeded(end_bound, hit_count) ==
    CASE end_bound.kind = "Included" -> hit_count > end_bound.n
      [] end_bound.kind = "Excluded" -> hit_count >= end_bound.n
      [] OTHER -> FALSE

\* RangeBounds::contains on the pair of bounds
hit_count_is_valid(bounds, hit_count) ==
    /\ CASE bounds[1].kind = "Included" -> bounds[1].n <= hit_count
         [] bounds[1].kind = "Excluded" -> bounds[1].n < hit_count
         [] OTHER -> TRUE
    /\ CASE bounds[2].kind = "Included" -> hit_count <= bounds[2].n
         [] bounds[2].kind = "Excluded" -> hit_count < bounds[2].n
         [] OTHER -> TRUE

MyIncluded(x) == [inc |-> TRUE, n |-> x]

MyUnbounded == [inc |-> FALSE, n |-> 0]

\* fmt::Display for RangeDisplay. x + 1 and x - 1 are usize operations:
\* they wrap modulo 2^UsizeBits, and `overflow` says that they did, which
\* is a panic in a build with overflow checks.
RangeDisplay(times) ==
    LET s == times[1]
        e == times[2]
        inclusive_start ==
            CASE s.kind = "Included" -> MyIncluded(s.n)
              [] s.kind = "Excluded" -> MyIncluded((s.n + 1) % UsizeModulus)
              [] OTHER -> MyUnbounded
        inclusive_end ==
            CASE e.kind = "Included" -> MyIncluded(e.n)
              [] e.kind = "Excluded" -> MyIncluded((e.n - 1) % UsizeModulus)
              [] OTHER -> MyUnbounded
        text ==
            CASE inclusive_start.inc /\ ~inclusive_end.inc ->
                     [name |-> "AtLeast", a |-> inclusive_start.n, b |-> 0]
              [] ~inclusive_start.inc /\ inclusive_end.inc ->
                     [name |-> "AtMost", a |-> inclusive_end.n, b |-> 0]
              [] inclusive_start.inc /\ inclusive_end.inc
                     /\ inclusive_start.n = inclusive_end.n ->
                     [name |-> "Exactly", a |-> inclusive_end.n, b |-> 0]
              [] inclusive_start.inc /\ inclusive_end.inc
                     /\ inclusive_start.n # inclusive_end.n ->
                     [name |-> "Between", a |-> inclusive_start.n,
                      b |-> inclusive_end.n]
              [] OTHER -> [name |-> "Any", a |-> 0, b |-> 0]
    IN  [overflow |-> \/ (s.kind = "Excluded" /\ s.n = UsizeMax)
                      \/ (e.kind = "Excluded" /\ e.n = 0),
         text |-> text]

NoText == [name |-> "", a |-> 0, b |-> 0]

(***************************************************************************)
(* Responses and responders.                                               *)
(***************************************************************************)
NoName == <<"", "">>

NoResponse == [status |-> 0, text |-> "", matcher |-> NoName,
               received |-> 0, expected |-> NoText]

status_code(code) == [kind |-> "ResponseBuilder", status |-> code]

\* delay_and_then(delay, and_then)
delay_and_then(and_then) == [kind |-> "Delay", and_then |-> and_then]

\* a closure that counts its calls in a captured variable and returns the
\* responder `first` from its first call and `later` from every other
counting_fn(first, later) ==
    [kind |-> "Fn", calls |-> 0, returns |-> <<first, later>>]

\* a function that returns a responder is a responder
responder_fn(returns) == counting_fn(returns, returns)

\* cycle(responders), for a vector that is not empty (cycle panics on an
\* empty one). idx counts from 0.
cycle(responders) == [kind |-> "Cycle", idx |-> 0, responders |-> responders]

\* f(): the closure after a call, and the responder the call returned
called(f) == [f EXCEPT !.calls = @ + 1]

returned_by(f) == f.returns[IF f.calls = 1 THEN 1 ELSE 2]

\* Responder::respond: the future the responder returns. The future of a
\* Delay sleeps, and the future of a function calls a clone of the
\* function (which may block), before it yields the response of the inner
\* responder: such a future is pending when on_req gets it. A Delay calls
\* its inner responder before it sleeps. A Cycle hands the request to the
\* responder at idx.
RECURSIVE respond(_, _)
respond(responder, r) ==
    CASE responder.kind = "Cycle" ->
            respond(responder.responders[responder.idx + 1], r)
      [] responder.kind = "Delay" ->
            [pending |-> TRUE, resp |-> respond(responder.and_then, r).resp]
      [] responder.kind = "Fn" ->
            [pending |-> TRUE,
             resp |-> respond(returned_by(called(responder)), r).resp]
      [] OTHER ->
            [pending |-> FALSE,
             resp |-> [NoResponse EXCEPT !.status = responder.status]]

\* a Cycle that answers every request with the same responder
next_idx_stuck(c) == c.idx

\* Cycle::respond: self.idx = (self.idx + 1) % self.responders.len()
next_idx(c) == (c.idx + 1) % Len(c.responders)

\* a function responder that calls itself instead of a clone
after_call(f) == called(f)

\* the function responder after `let mut f = self.clone()`
after_clone(f) == f

\* a responder that no call changes
responder_kept(responder) == responder

\* Responder::respond takes &mut self: the responder after the call
RECURSIVE responder_after(_)
responder_after(responder) ==
    CASE responder.kind = "Cycle" ->
            [responder EXCEPT
               !.idx = next_idx(responder),
               !.responders[responder.idx + 1] = responder_after(@)]
      [] responder.kind = "Delay" ->
            [responder EXCEPT !.and_then = responder_after(@)]
      [] responder.kind = "Fn" -> after_clone(responder)
      [] OTHER -> responder

\* the future of times_error: a 500 that reports matcher, count and bound
times_error(m, times, hit_count) ==
    [pending |-> FALSE,
     resp |-> [status |-> 500,
               text |-> "Unexpected number of requests for matcher",
               matcher |-> matcher_name(m),
               received |-> hit_count,
               expected |-> RangeDisplay(times).text]]

\* the response on_req builds when no future was chosen
NoMatcherFound == [NoResponse EXCEPT !.status = 500,
                                     !.text = "No matcher found"]

NoFuture == [pending |-> FALSE, resp |-> NoResponse]

(***************************************************************************)
(* Expectations and their builder.                                         *)
(***************************************************************************)
\* Expectation::matching with a default of at most one request
Expectation_matching_at_most_once(m) ==
    [matcher |-> m, times |-> <<Included(0), Included(1)>>,
     times_called |-> FALSE]

\* Expectation::matching: the builder starts with exactly one request.
\* times_called is not a field of the builder: it remembers whether
\* times() was called.
Expectation_matching(m) ==
    [matcher |-> m, times |-> <<Included(1), Included(1)>>,
     times_called |-> FALSE]

times(builder, r) ==
    [builder EXCEPT !.times = into_times(r), !.times_called = TRUE]

\* responded is not a field of the expectation: it counts the calls of
\* responder.respond
respond_with(builder, responder) ==
    [matcher |-> builder.matcher, times |-> builder.times,
     responder |-> responder, hit_count |-> 0,
     times_called |-> builder.times_called, responded |-> 0]

\* the expectations a test registers in the model
Expectations ==
    { respond_with(times(Expectation_matching(Any), RangeFrom(1)),
                   responder_fn(status_code(200))),
      respond_with(Expectation_matching(Path("/foo")), status_code(200)),
      respond_with(times(Expectation_matching(Path("/bar")), Range(1, 2)),
                   delay_and_then(status_code(404))),
      respond_with(times(Expectation_matching(Path("/bar")), RangeTo(0)),
                   status_code(200)) }

\* a search that evaluates the matcher of every expectation
RECURSIVE find_exhaustive(_, _, _)
find_exhaustive(exps, r, i) ==
    IF i = 0 THEN [found |-> 0, evaluated |-> <<>>]
    ELSE LET rest == find_exhaustive(exps, r, i - 1)
         IN  [found |-> IF evaluate(exps[i].matcher, r) THEN i
                        ELSE rest.found,
              evaluated |-> <<i>> \o rest.evaluated]

\* the loop of find_expectation from expectation i backwards: the index
\* found (0 for None) and the expectations whose matcher was evaluated
RECURSIVE find_from(_, _, _)
find_from(exps, r, i) ==
    IF i = 0 THEN [found |-> 0, evaluated |-> <<>>]
    ELSE IF evaluate(exps[i].matcher, r) THEN [found |-> i, evaluated |-> <<i>>]
    ELSE LET rest == find_from(exps, r, i - 1)
         IN  [rest EXCEPT !.evaluated = <<i>> \o @]

RECURSIVE find_forward(_, _, _)
find_forward(exps, r, i) ==
    IF i > Len(exps) THEN 0
    ELSE IF evaluate(exps[i].matcher, r) THEN i
    ELSE find_forward(exps, r, i + 1)

\* find_expectation without .rev(): the first expectation added wins
find_expectation_in_order(exps, r) == find_forward(exps, r, 1)

\* ServerStateInner::find_expectation: the index of the expectation found,
\* 0 for None. The expectations are tried from the last one backwards.
find_expectation(exps, r) == find_from(exps, r, Len(exps)).found

HitCounts(exps) == [i \in 1..Len(exps) |-> exps[i].hit_count]

RECURSIVE Sum(_, _)
Sum(f, S) ==
    IF S = {} THEN 0
    ELSE LET x == CHOOSE y \in S : TRUE IN f[x] + Sum(f, S \ {x})

\* on_req: times_exceeded(expectation.times.1, expectation.hit_count)
hit_count_exceeded(e) == times_exceeded(e.times[2], e.hit_count)

\* a hit count that stops at the upper bound
increment_hit_count_within_limit(e) ==
    IF times_exceeded(e.times[2], e.hit_count + 1) THEN e
    ELSE [e EXCEPT !.hit_count = e.hit_count + 1]

\* a hit that also lifts the upper bound of the expectation
increment_hit_count_unbounded(e) ==
    [e EXCEPT !.hit_count = e.hit_count + 1, !.times[2] = Unbounded]

\* a hit that counts twice
increment_hit_count_by_two(e) == [e EXCEPT !.hit_count = e.hit_count + 2]

\* expectation.hit_count += 1
increment_hit_count(e) == [e EXCEPT !.hit_count = e.hit_count + 1]

(***************************************************************************)
(* Verification.                                                           *)
(***************************************************************************)
NoMessage == [kind |-> "", matcher |-> NoName, received |-> 0,
              expected |-> NoText, unexpected |-> <<>>]

\* taken, taken_unexpected: the sizes of the registry the call took;
\* unsatisfied: how many of the expectations taken had a hit count outside
\* their bounds; after_500: a cardinality 500 had been answered from that
\* registry
NoCall == [op |-> "none", panicking |-> FALSE, outcome |-> "",
           msg |-> NoMessage, printed |-> FALSE,
           taken |-> 0, taken_unexpected |-> 0, unsatisfied |-> 0,
           after_500 |-> FALSE]

\* lock().expect("mutex poisoned") on a poisoned mutex
MutexPoisoned(op, panicking) ==
    [NoCall EXCEPT !.op = op, !.panicking = panicking, !.outcome = "panic",
                   !.msg = [NoMessage EXCEPT !.kind = "mutex poisoned"]]

\* the last expectation from i on whose hit count is outside its bounds
RECURSIVE last_invalid(_, _)
last_invalid(exps, i) ==
    IF i > Len(exps) THEN 0
    ELSE LET j == last_invalid(exps, i + 1)
         IN  IF j # 0 THEN j
             ELSE IF ~hit_count_is_valid(exps[i].times, exps[i].hit_count)
                  THEN i ELSE 0

RECURSIVE first_invalid(_, _)
first_invalid(exps, i) ==
    IF i > Len(exps) THEN 0
    ELSE IF ~hit_count_is_valid(exps[i].times, exps[i].hit_count) THEN i
    ELSE first_invalid(exps, i + 1)

\* verify_and_clear without the check of the unexpected requests
verify_taken_expectations_only(op, exps, unexp, panicking, checks) ==
    LET i == first_invalid(exps, 1)
        ok == [NoCall EXCEPT !.op = op, !.panicking = panicking,
                             !.outcome = "ok", !.taken = Len(exps),
                             !.taken_unexpected = Len(unexp)]
        failed(m) == [ok EXCEPT !.outcome = "panic", !.msg = m]
    IN  IF panicking THEN [ok EXCEPT !.printed = (unexp # <<>>)]
        ELSE IF i # 0 THEN
            IF RangeDisplay(exps[i].times).overflow /\ checks
            THEN failed([NoMessage EXCEPT !.kind = "arithmetic overflow"])
            ELSE failed([kind |-> "Unexpected number of requests for matcher",
                         matcher |-> matcher_name(exps[i].matcher),
                         received |-> exps[i].hit_count,
                         expected |-> RangeDisplay(exps[i].times).text,
                         unexpected |-> unexp])
        ELSE ok

\* Server::verify_and_clear after the registry was taken: what the call
\* does with the state it took. checks: the build checks overflow.
verify_taken(op, exps, unexp, panicking, checks) ==
    LET i == first_invalid(exps, 1)
        ok == [NoCall EXCEPT !.op = op, !.panicking = panicking,
                             !.outcome = "ok", !.taken = Len(exps),
                             !.taken_unexpected = Len(unexp)]
        failed(m) == [ok EXCEPT !.outcome = "panic", !.msg = m]
    IN  IF panicking THEN [ok EXCEPT !.printed = (unexp # <<>>)]
        ELSE IF i # 0 THEN
            IF RangeDisplay(exps[i].times).overflow /\ checks
            THEN failed([NoMessage EXCEPT !.kind = "arithmetic overflow"])
            ELSE failed([kind |-> "Unexpected number of requests for matcher",
                         matcher |-> matcher_name(exps[i].matcher),
                         received |-> exps[i].hit_count,
                         expected |-> RangeDisplay(exps[i].times).text,
                         unexpected |-> unexp])
        ELSE IF unexp # <<>> THEN
            failed([NoMessage EXCEPT
                      !.kind = "Received the following unexpected requests",
                      !.unexpected = unexp])
        ELSE ok

\* does verify_and_clear render a bound whose rendering overflows
verify_overflows(exps, panicking) ==
    LET i == first_invalid(exps, 1)
    IN  ~panicking /\ i # 0 /\ RangeDisplay(exps[i].times).overflow

(***************************************************************************)
(* The state.                                                              *)
(***************************************************************************)
VARIABLES
    expected,             \* ServerStateInner.expected
    unexpected_requests,  \* ServerStateInner.unexpected_requests
    lock,                 \* the task that holds the mutex, 0 for none
    poisoned,             \* the mutex was held by a task that panicked
    overflow_checks,      \* does the build panic on arithmetic overflow:
                          \* "on", "off", "unknown" until it first matters
    server,               \* where the server is in its life
    pc,                   \* where each connection task is
    req,                  \* the request a task is dispatching
    future,               \* the response future on_req awaits
    disp,                 \* the expectation of the registry a task hit
    nreq,                 \* requests received so far
    nexpect,              \* calls of expect so far
    last_call,            \* the call of the test thread that has just
                          \* returned or panicked, and its outcome
    last_response,        \* the response that has just been returned,
                          \* or the request that has just been dropped
                          \* by a panic of its task
    dispatched,           \* requests dispatched against this registry,
                          \* by request and by whether it was empty
    credited,             \* for each expectation of the registry, the
                          \* requests it was the most recent match of
    answered_500,         \* expectations of this registry that have
                          \* answered a request with the cardinality 500
    servers_created,      \* InnerPool.servers_created
    servers_rx,           \* the servers in the channel of the pool
    handle,               \* ServerHandle.server of the handle of each test,
                          \* 0 for none
    test_pc,              \* where each test is with its handle
    pool_state,           \* the registry of each server of the pool
    running,              \* the servers of the pool that were not dropped
    the_matcher,          \* the matcher ExecutionContext::evaluate is given
    the_input,            \* and its input
    evaluation            \* what evaluate returned and its context

\* the pool and its tests
pool_vars == <<servers_created, servers_rx, handle, test_pc, pool_state,
               running>>

\* an evaluation of a matcher
matcher_vars == <<the_matcher, the_input, evaluation>>

\* one server and its connection tasks
server_vars == <<expected, unexpected_requests, lock, poisoned,
                 overflow_checks, server, pc, req, future, disp, nreq,
                 nexpect, last_call, last_response, dispatched, credited,
                 answered_500>>

vars == <<server_vars, pool_vars, matcher_vars>>

NoRequest == [method |-> "", path |-> ""]

NoReturn == [req |-> NoRequest, resp |-> NoResponse]

DispatchKeys == Requests \X BOOLEAN

NothingDispatched == [k \in DispatchKeys |-> 0]

ServerInit ==
    /\ expected = <<>>
    /\ unexpected_requests = <<>>
    /\ lock = 0
    /\ poisoned = FALSE
    /\ overflow_checks = "unknown"
    /\ server = "Running"
    /\ pc = [t \in Tasks |-> "idle"]
    /\ req = [t \in Tasks |-> NoRequest]
    /\ future = [t \in Tasks |-> NoFuture]
    /\ disp = [t \in Tasks |-> 0]
    /\ nreq = 0
    /\ nexpect = 0
    /\ last_call = NoCall
    /\ last_response = NoReturn
    /\ dispatched = NothingDispatched
    /\ credited = <<>>
    /\ answered_500 = {}

Tests == 1..NumTests

Servers == 1..MaxServers

\* a default state that kept a request of the state it replaced
StateWithStaleLog ==
    [expected |-> <<>>,
     unexpected_requests |-> <<[method |-> "GET", path |-> "/foo"]>>]

\* ServerStateInner::default()
EmptyState == [expected |-> <<>>, unexpected_requests |-> <<>>]

\* ServerPool::new: nothing is created before the first get_server
PoolInit ==
    /\ servers_created = 0
    /\ servers_rx = <<>>
    /\ handle = [t \in Tests |-> 0]
    /\ test_pc = [t \in Tests |-> "start"]
    /\ pool_state = [s \in Servers |-> EmptyState]
    /\ running = {}

NoEvaluation == [done |-> FALSE, x |-> FALSE, stack_depth |-> 0,
                 log |-> <<>>, found |-> 0]

NoMatcher == [kind |-> "", arg |-> ""]

MatcherInit ==
    /\ the_matcher = NoMatcher
    /\ the_input = NoRequest
    /\ evaluation = NoEvaluation

Init == ServerInit /\ PoolInit /\ MatcherInit

registry == <<expected, unexpected_requests>>

\* the expectations of the registry whose matcher accepts r
Matching(r) == {i \in 1..Len(expected) : evaluate(expected[i].matcher, r)}

MostRecent(S) == CHOOSE i \in S : \A j \in S : j <= i

\* what the model remembers of the requests a registry has seen
history == <<dispatched, credited, answered_500>>

\* nothing returns in this step
returns_nothing == last_call' = NoCall /\ last_response' = NoReturn

\* the builds a step that overflows (or not) can be running in
builds(overflows) ==
    IF overflows /\ overflow_checks = "unknown" THEN {"on", "off"}
    ELSE {overflow_checks}

(***************************************************************************)
(* A connection task: process_request and on_req.                          *)
(***************************************************************************)
\* the guard lives as long as the future: the lock stays with the task
guard_kept(t) == t

\* the holder of the lock after the block of on_req that took it: the
\* guard is dropped at the end of the block
guard_dropped(t) == 0

\* the connection of a request that is dropped without a response
NoReply(r) == [req |-> r, resp |-> NoResponse]

\* the task panics: its request and its future are dropped, the client
\* gets no response, and the connection is gone. A later request comes
\* over another connection, so the slot of the task is free again.
task_panics(t, r) ==
    /\ pc' = [pc EXCEPT ![t] = "idle"]
    /\ req' = [req EXCEPT ![t] = NoRequest]
    /\ future' = [future EXCEPT ![t] = NoFuture]
    /\ last_response' = NoReply(r)

\* a task of the model is a request in flight on some connection. The
\* connections are interchangeable: a request goes to the idle task with
\* the lowest number.
\* A request also comes over a connection that is already open: one kept
\* alive between requests, or one whose request is still arriving.
accepts(t) ==
    \/ pc[t] \in {"keepalive", "reading"}
    \/ pc[t] = "idle" /\ \A u \in Tasks : pc[u] = "idle" => t <= u

\* process_request has read the body of a request into memory and on_req
\* runs up to state.lock().expect("mutex poisoned"). Nothing is awaited
\* between the two.
process_request(t, r, limit) ==
    /\ server \in {"Running", "ShutdownRequested"}
    /\ accepts(t)
    /\ nreq < limit
    /\ nreq' = nreq + 1
    /\ IF poisoned
       THEN /\ task_panics(t, r)
            /\ UNCHANGED lock
       ELSE /\ lock = 0
            /\ lock' = t
            /\ pc' = [pc EXCEPT ![t] = "locked"]
            /\ req' = [req EXCEPT ![t] = r]
            /\ last_response' = NoReturn
            /\ UNCHANGED future
    /\ last_call' = NoCall
    /\ UNCHANGED <<registry, poisoned, overflow_checks, server, disp, nexpect,
                   history>>
    /\ UNCHANGED <<pool_vars, matcher_vars>>

ProcessRequest(t, r) == process_request(t, r, MaxRequests)

\* on_req under the lock: find the expectation, count the hit and choose
\* the response future; the lock is released at the end of the block. A
\* panic while the bound is rendered poisons the mutex. The future holds
\* what it needs of the request.
OnReqDispatch(t) ==
    /\ pc[t] = "locked"
    /\ lock = t
    /\ LET i == find_expectation(expected, req[t])
           e == increment_hit_count(expected[i])
           counted == <<req[t], expected = <<>> >>
           awaits(f, k) ==
               /\ future' = [future EXCEPT ![t] = f]
               /\ pc' = [pc EXCEPT ![t] = "awaiting"]
               /\ disp' = [disp EXCEPT ![t] = k]
               /\ req' = [req EXCEPT ![t] = NoRequest]
               /\ last_response' = NoReturn
               /\ UNCHANGED poisoned
       IN  /\ dispatched' = [dispatched EXCEPT ![counted] = @ + 1]
           /\ credited' =
                 IF Matching(req[t]) = {} THEN credited
                 ELSE [credited EXCEPT ![MostRecent(Matching(req[t]))] = @ + 1]
           /\ IF i = 0
              THEN /\ unexpected_requests' = Append(unexpected_requests, req[t])
                   /\ awaits(NoFuture, 0)
                   /\ UNCHANGED <<expected, overflow_checks>>
              ELSE /\ UNCHANGED unexpected_requests
                   /\ IF ~hit_count_exceeded(e)
                      THEN /\ expected' =
                                [expected EXCEPT
                                   ![i] = [e EXCEPT
                                             !.responder = responder_after(@),
                                             !.responded = @ + 1]]
                           /\ awaits(respond(e.responder, req[t]), i)
                           /\ UNCHANGED overflow_checks
                      ELSE \E b \in builds(RangeDisplay(e.times).overflow) :
                           /\ expected' = [expected EXCEPT ![i] = e]
                           /\ overflow_checks' = b
                           /\ IF RangeDisplay(e.times).overflow /\ b = "on"
                              THEN /\ poisoned' = TRUE
                                   /\ task_panics(t, req[t])
                                   /\ disp' = [disp EXCEPT ![t] = 0]
                              ELSE awaits(times_error(e.matcher, e.times,
                                                      e.hit_count), i)
    /\ lock' = guard_dropped(t)
    /\ last_call' = NoCall
    /\ UNCHANGED <<server, nreq, nexpect, answered_500>>
    /\ UNCHANGED <<pool_vars, matcher_vars>>

\* the sleep of a Delay future, or the call of a function responder, is
\* over
FutureReady(t) ==
    /\ pc[t] = "awaiting"
    /\ future[t].pending
    /\ future' = [future EXCEPT ![t].pending = FALSE]
    /\ returns_nothing
    /\ UNCHANGED <<registry, lock, poisoned, overflow_checks, server, pc, req,
                   disp, nreq, nexpect, history>>
    /\ UNCHANGED <<pool_vars, matcher_vars>>

\* f.await returns the response (without a future: "No matcher found"),
\* which goes back to the client
OnReqAwait(t) ==
    /\ pc[t] = "awaiting"
    /\ ~future[t].pending
    /\ LET response == IF future[t] = NoFuture THEN NoMatcherFound
                       ELSE future[t].resp
       IN  /\ last_response' = [NoReturn EXCEPT !.resp = response]
           /\ answered_500' =
                 IF /\ response.text = "Unexpected number of requests for matcher"
                    /\ disp[t] # 0
                 THEN answered_500 \cup {disp[t]}
                 ELSE answered_500
    /\ pc' = [pc EXCEPT ![t] = "idle"]
    /\ future' = [future EXCEPT ![t] = NoFuture]
    /\ disp' = [disp EXCEPT ![t] = 0]
    /\ last_call' = NoCall
    /\ UNCHANGED <<registry, lock, poisoned, overflow_checks, server, req,
                   nreq, nexpect, dispatched, credited>>
    /\ UNCHANGED <<pool_vars, matcher_vars>>

(***************************************************************************)
(* The test thread: expect, verify_and_clear and Drop.                     *)
(***************************************************************************)
\* Server::expect and ServerState::push_expectation
Expect(e) ==
    /\ server = "Running"
    /\ lock = 0
    /\ nexpect < MaxExpectations
    /\ nexpect' = nexpect + 1
    /\ IF poisoned
       THEN /\ last_call' = MutexPoisoned("expect", FALSE)
            /\ UNCHANGED expected
            /\ UNCHANGED credited
       ELSE /\ expected' = Append(expected, e)
            /\ credited' = Append(credited, 0)
            /\ last_call' = NoCall
    /\ last_response' = NoReturn
    /\ UNCHANGED <<unexpected_requests, lock, poisoned, overflow_checks,
                   server, pc, req, future, disp, nreq, dispatched,
                   answered_500>>
    /\ UNCHANGED <<pool_vars, matcher_vars>>

\* Server::verify_and_clear, called by op on a thread that is panicking
\* or not: take the registry under the lock, then verify what was taken.
verify_and_clear(op, panicking) ==
    /\ lock = 0
    /\ IF poisoned
       THEN /\ last_call' = MutexPoisoned(op, panicking)
            /\ UNCHANGED <<registry, overflow_checks, disp, history>>
       ELSE /\ expected' = EmptyState.expected
            /\ unexpected_requests' = EmptyState.unexpected_requests
            /\ disp' = [t \in Tasks |-> 0]
            /\ dispatched' = NothingDispatched
            /\ credited' = <<>>
            /\ answered_500' = {}
            /\ \E b \in builds(verify_overflows(expected, panicking)) :
                 /\ overflow_checks' = b
                 /\ last_call' =
                       [verify_taken(op, expected, unexpected_requests,
                                     panicking, b = "on")
                          EXCEPT !.after_500 = (answered_500 # {}),
                                !.unsatisfied =
                                    Cardinality(
                                      {i \in 1..Len(expected) :
                                         ~hit_count_is_valid(
                                             expected[i].times,
                                             expected[i].hit_count)})]
    /\ last_response' = NoReturn
    /\ UNCHANGED <<lock, poisoned, pc, req, future, nreq, nexpect>>
    /\ UNCHANGED <<pool_vars, matcher_vars>>

VerifyAndClear(panicking) ==
    /\ server = "Running"
    /\ verify_and_clear("verify_and_clear", panicking)
    /\ UNCHANGED server

\* Drop for Server: self.trigger_shutdown = None
DropTriggerShutdown ==
    /\ server = "Running"
    /\ server' = "ShutdownRequested"
    /\ returns_nothing
    /\ UNCHANGED <<registry, lock, poisoned, overflow_checks, pc, req, future,
                   disp, nreq, nexpect, history>>
    /\ UNCHANGED <<pool_vars, matcher_vars>>

\* a connection task that sees the shutdown signal only between two
\* requests
interruptible_between_requests(t) == pc[t] = "keepalive"

\* the select! of a connection task polls the shutdown receiver whenever
\* the connection is pending: between requests, while a body arrives,
\* and while the response future is awaited
interruptible(t) == pc[t] \in {"keepalive", "reading", "awaiting"}

\* a connection task sees the shutdown signal: it asks the connection to
\* shut down and ends, and the future it awaited is dropped with it
ConnShutdown(t) ==
    /\ server = "ShutdownRequested"
    /\ interruptible(t)
    /\ pc' = [pc EXCEPT ![t] = "idle"]
    /\ future' = [future EXCEPT ![t] = NoFuture]
    /\ disp' = [disp EXCEPT ![t] = 0]
    /\ returns_nothing
    /\ UNCHANGED <<registry, lock, poisoned, overflow_checks, server, req,
                   nreq, nexpect, history>>
    /\ UNCHANGED <<pool_vars, matcher_vars>>

\* every connection task has ended and was joined: the background thread
\* ends
BackgroundExit ==
    /\ server = "ShutdownRequested"
    /\ \A t \in Tasks : pc[t] = "idle"
    /\ server' = "Stopped"
    /\ returns_nothing
    /\ UNCHANGED <<registry, lock, poisoned, overflow_checks, pc, req, future,
                   disp, nreq, nexpect, history>>
    /\ UNCHANGED <<pool_vars, matcher_vars>>

\* a Drop that goes on to verify as soon as it has signalled the shutdown
shutdown_signalled == server \in {"ShutdownRequested", "Stopped"}

\* Drop for Server: self.join_handle.take().unwrap().join() has returned
joined == server = "Stopped"

\* Drop for Server: the thread was joined, then self.verify_and_clear()
DropVerify(panicking) ==
    /\ joined
    /\ verify_and_clear("drop", panicking)
    /\ server' = "Dropped"

Next ==
    \/ \E t \in Tasks, r \in Requests : ProcessRequest(t, r)
    \/ \E t \in Tasks : OnReqDispatch(t)
    \/ \E t \in Tasks : FutureReady(t)
    \/ \E t \in Tasks : OnReqAwait(t)
    \/ \E e \in Expectations : Expect(e)
    \/ \E p \in BOOLEAN : VerifyAndClear(p)
    \/ DropTriggerShutdown
    \/ \E t \in Tasks : ConnShutdown(t)
    \/ BackgroundExit
    \/ \E p \in BOOLEAN : DropVerify(p)

Spec == Init /\ [][Next]_vars

(***************************************************************************)
(* A cardinality test: one expectation that matches every request, built   *)
(* with times(...), then requests sent one after the other on one          *)
(* connection, and verify_and_clear at any point.                          *)
(***************************************************************************)
\* the values the test passes to times()
TimesArguments ==
    { Usize(5), RangeFrom(2), RangeToInclusive(7), Range(3, 6),
      RangeInclusive(3, 6), RangeFull, RangeTo(2), RangeTo(0), Range(0, 0),
      Range(5, 3), Bounds(Excluded(2), Included(4)),
      Bounds(Excluded(UsizeMax), Unbounded) }

\* the expectations of the test; the last is the one of test_cycle
TimesExpectations ==
    { respond_with(times(Expectation_matching(Any), a), status_code(200)) :
        a \in TimesArguments }
    \cup
    { respond_with(times(Expectation_matching(Any), Usize(4)),
                   cycle(<<status_code(200), status_code(404)>>)) }

TheRequest == [method |-> "GET", path |-> "/foo"]

TimesExpect(e) ==
    /\ nexpect = 0
    /\ Expect(e)

TimesRequest ==
    /\ nexpect > 0
    /\ process_request(1, TheRequest, MaxHits)

TimesNext ==
    \/ \E e \in TimesExpectations : TimesExpect(e)
    \/ TimesRequest
    \/ OnReqDispatch(1)
    \/ OnReqAwait(1)
    \/ VerifyAndClear(FALSE)

SpecTimes == Init /\ [][TimesNext]_vars

(***************************************************************************)
(* A dispatch test: two kinds of expectation, requests on several          *)
(* connections, and verify_and_clear at any moment the lock is free.       *)
(***************************************************************************)
RegisteredExpectations ==
    { respond_with(Expectation_matching(Path("/foo")), status_code(200)),
      respond_with(times(Expectation_matching(Any), RangeFrom(1)),
                   delay_and_then(status_code(404))) }

DispatchNext ==
    \/ \E e \in RegisteredExpectations : Expect(e)
    \/ \E t \in Tasks, r \in Requests : ProcessRequest(t, r)
    \/ \E t \in Tasks : OnReqDispatch(t)
    \/ \E t \in Tasks : FutureReady(t)
    \/ \E t \in Tasks : OnReqAwait(t)
    \/ VerifyAndClear(FALSE)

SpecDispatch == Init /\ [][DispatchNext]_vars

(***************************************************************************)
(* A test that drops its server while connections are open: kept alive     *)
(* between requests, in the middle of a request body, or waiting for a     *)
(* delayed response.  A connection task that can run does run (the         *)
(* runtime polls a woken task), the background thread ends once its tasks  *)
(* are joined, and the dropping thread goes on once join() returns.        *)
(* Nothing is assumed of the clients or of the delays.                     *)
(***************************************************************************)
\* the accept loop spawns a task for a new connection; the client sends
\* nothing yet, or a request head whose body is still on its way
Connect(t, arriving) ==
    /\ server = "Running"
    /\ pc[t] = "idle"
    /\ \A u \in Tasks : pc[u] = "idle" => t <= u
    /\ pc' = [pc EXCEPT ![t] = IF arriving THEN "reading" ELSE "keepalive"]
    /\ returns_nothing
    /\ UNCHANGED <<registry, lock, poisoned, overflow_checks, server, req,
                   future, disp, nreq, nexpect, history>>
    /\ UNCHANGED <<pool_vars, matcher_vars>>

DropNext ==
    \/ \E e \in RegisteredExpectations : TimesExpect(e)
    \/ \E t \in Tasks, arriving \in BOOLEAN : Connect(t, arriving)
    \/ \E t \in Tasks, r \in Requests : ProcessRequest(t, r)
    \/ \E t \in Tasks : OnReqDispatch(t)
    \/ \E t \in Tasks : FutureReady(t)
    \/ \E t \in Tasks : OnReqAwait(t)
    \/ DropTriggerShutdown
    \/ \E t \in Tasks : ConnShutdown(t)
    \/ BackgroundExit
    \/ \E panicking \in BOOLEAN : DropVerify(panicking)

DropFairness ==
    /\ \A t \in Tasks : WF_vars(OnReqDispatch(t))
    /\ \A t \in Tasks : WF_vars(ConnShutdown(t))
    /\ WF_vars(BackgroundExit)
    /\ WF_vars(\E panicking \in BOOLEAN : DropVerify(panicking))

SpecDrop == Init /\ [][DropNext]_vars /\ DropFairness

(***************************************************************************)
(* A responder test: one expectation that matches every request and       *)
(* answers by a cycle, a delayed cycle or a counting function; requests    *)
(* arrive on several connections at once.                                  *)
(***************************************************************************)
ResponderExpectations ==
    { respond_with(times(Expectation_matching(Any), Usize(3)),
                   cycle(<<status_code(200),
                           delay_and_then(status_code(404))>>)),
      respond_with(times(Expectation_matching(Any), Usize(3)),
                   delay_and_then(cycle(<<status_code(200),
                                          status_code(404)>>))),
      respond_with(times(Expectation_matching(Any), RangeFrom(0)),
                   counting_fn(status_code(200), status_code(404))) }

RespondersNext ==
    \/ \E e \in ResponderExpectations : TimesExpect(e)
    \/ \E t \in Tasks : nexpect > 0 /\ process_request(t, TheRequest, MaxHits)
    \/ \E t \in Tasks : OnReqDispatch(t)
    \/ \E t \in Tasks : FutureReady(t)
    \/ \E t \in Tasks : OnReqAwait(t)

SpecResponders == Init /\ [][RespondersNext]_vars

(***************************************************************************)
(* Matcher trees: a test builds a matcher and an input, evaluates the one  *)
(* on the other, and a server holding the matcher dispatches the input.    *)
(***************************************************************************)
MaxListLen == 2

MaxBodyLen == 2

RECURSIVE SeqsUpTo(_, _)
SeqsUpTo(S, n) ==
    IF n = 0 THEN {<<>>}
    ELSE LET shorter == SeqsUpTo(S, n - 1)
         IN  shorter \cup {Append(q, e) : q \in shorter, e \in S}

\* requests without body and headers, and GET /foo with each body and with
\* each list of headers
MatcherInputs ==
    {[method |-> me, path |-> pa, body |-> <<>>, headers |-> <<>>] :
        me \in {"GET", "POST"}, pa \in {"/foo", "/bar"}}
    \cup {[method |-> "GET", path |-> "/foo", body |-> b, headers |-> <<>>] :
            b \in SeqsUpTo({"0", "1", " ", "x"}, MaxBodyLen)}
    \cup {[method |-> "GET", path |-> "/foo", body |-> <<>>, headers |-> h] :
            h \in SeqsUpTo({[k |-> "accept", v |-> "a"],
                             [k |-> "host", v |-> "b"]}, MaxListLen)}

MethodMatchers == {Any, Str("GET"), not(Str("GET"))}

PathMatchers == {Any, Str("/foo"), not(Str("/foo"))}

MatcherTrees ==
    LET bodies == {json_decoded(eq(1)), json_decoded(Any),
                   json_decoded(not(eq(0)))}
        lists == SeqsUpTo({Path("/foo"), request_method(Str("GET")),
                           request_body(json_decoded(eq(1)))}, MaxListLen)
        elements == {Any, key(Str("host")), not(key(Str("host")))}
        leaves == {Any, Path("/foo")}
            \cup {request_headers(contains(e)) : e \in elements}
            \cup {request_method(m) : m \in MethodMatchers}
            \cup {request_path(p) : p \in PathMatchers}
            \cup {request_body(b) : b \in bodies}
            \cup {method_path(m, p) : m \in MethodMatchers, p \in PathMatchers}
        composed == {all_of(ms) : ms \in lists}
            \cup {any_of(ms) : ms \in lists}
            \cup {all_of(<<request_method(m), request_path(p)>>) :
                    m \in MethodMatchers, p \in PathMatchers}
    IN  leaves \cup composed \cup {not(m) : m \in leaves \cup composed}

\* the test constructs its matcher and its input
Choose(m, input) ==
    /\ the_matcher = NoMatcher
    /\ the_matcher' = m
    /\ the_input' = input
    /\ UNCHANGED <<evaluation, server_vars, pool_vars>>

\* ExecutionContext::evaluate(&mut matcher, &input)
Evaluate ==
    /\ the_matcher # NoMatcher
    /\ ~evaluation.done
    /\ LET r == evaluate_in_context(the_matcher, the_input)
       IN  evaluation' = [evaluation EXCEPT !.done = TRUE,
                                            !.x = r.x,
                                            !.stack_depth = r.ctx.stack_depth,
                                            !.log = r.ctx.log]
    /\ UNCHANGED <<the_matcher, the_input, server_vars, pool_vars>>

\* a server expecting any request and, added after it, a request the
\* matcher accepts
DispatchExpectations ==
    <<respond_with(Expectation_matching(Any), status_code(404)),
      respond_with(Expectation_matching(the_matcher), status_code(200))>>

\* ServerStateInner::find_expectation for the input, a request
Dispatch ==
    /\ the_matcher # NoMatcher
    /\ evaluation.found = 0
    /\ evaluation' = [evaluation EXCEPT
                        !.found = find_expectation(DispatchExpectations,
                                                   the_input)]
    /\ UNCHANGED <<the_matcher, the_input, server_vars, pool_vars>>

MatchersNext ==
    \/ /\ the_matcher = NoMatcher
       /\ \E m \in MatcherTrees, input \in MatcherInputs : Choose(m, input)
    \/ Evaluate
    \/ Dispatch

SpecMatchers == Init /\ [][MatchersNext]_vars

(***************************************************************************)
(* The ServerPool: tests on threads of their own take a ServerHandle with  *)
(* get_server, use the server behind it and drop the handle.               *)
(***************************************************************************)
\* the expectation a test registers on its server
PoolExpectation ==
    respond_with(Expectation_matching(Path("/foo")), status_code(200))

\* a receive that leaves the server in the channel
received_kept(ch) == ch

\* the channel after try_recv or recv has taken its first server
received(ch) == Tail(ch)

\* a pool that creates a server whenever the channel is empty
may_create_always == TRUE

\* get_server: *servers_created < self.servers_tx.capacity().unwrap()
may_create == servers_created < MaxServers

\* the ServerHandle get_server returns to test t
returns_handle(t, s) ==
    /\ handle' = [handle EXCEPT ![t] = s]
    /\ test_pc' = [test_pc EXCEPT ![t] = "holding"]

\* get_server: self.servers_rx.try_recv()
GetServerTryRecv(t) ==
    /\ test_pc[t] = "start"
    /\ IF servers_rx # <<>>
       THEN /\ returns_handle(t, Head(servers_rx))
            /\ servers_rx' = received(servers_rx)
       ELSE /\ test_pc' = [test_pc EXCEPT ![t] = "try_recv_failed"]
            /\ UNCHANGED <<handle, servers_rx>>
    /\ UNCHANGED <<servers_created, pool_state, running>>
    /\ UNCHANGED <<server_vars, matcher_vars>>

\* get_server, under the lock of servers_created: create a server with
\* Server::run() while the pool may, otherwise go on to recv()
GetServerCreate(t) ==
    /\ test_pc[t] = "try_recv_failed"
    /\ IF may_create
       THEN /\ servers_created' = servers_created + 1
            /\ running' = running \cup {servers_created + 1}
            /\ returns_handle(t, servers_created + 1)
       ELSE /\ test_pc' = [test_pc EXCEPT ![t] = "recv"]
            /\ UNCHANGED <<servers_created, running, handle>>
    /\ UNCHANGED <<servers_rx, pool_state>>
    /\ UNCHANGED <<server_vars, matcher_vars>>

\* get_server: self.servers_rx.recv() blocks until the channel has a server
GetServerRecv(t) ==
    /\ test_pc[t] = "recv"
    /\ servers_rx # <<>>
    /\ returns_handle(t, Head(servers_rx))
    /\ servers_rx' = received(servers_rx)
    /\ UNCHANGED <<servers_created, pool_state, running>>
    /\ UNCHANGED <<server_vars, matcher_vars>>

\* server.expect(...) through the handle
HandleExpect(t) ==
    /\ test_pc[t] = "holding"
    /\ pool_state[handle[t]].expected = <<>>
    /\ pool_state' = [pool_state EXCEPT ![handle[t]].expected =
                         Append(@, PoolExpectation)]
    /\ UNCHANGED <<servers_created, servers_rx, handle, test_pc, running>>
    /\ UNCHANGED <<server_vars, matcher_vars>>

\* the requests the server behind a handle has dispatched
requests_of(st) ==
    Len(st.unexpected_requests)
      + Sum(HitCounts(st.expected), 1..Len(st.expected))

\* the test sends a request to its server: on_req finds the expectation
\* and counts the hit, or logs the request as unexpected
HandleRequest(t, r) ==
    /\ test_pc[t] = "holding"
    /\ requests_of(pool_state[handle[t]]) = 0
    /\ LET st == pool_state[handle[t]]
           i == find_expectation(st.expected, r)
       IN  pool_state' =
             [pool_state EXCEPT ![handle[t]] =
                IF i = 0
                THEN [st EXCEPT !.unexpected_requests = Append(@, r)]
                ELSE [st EXCEPT !.expected[i] = increment_hit_count(@)]]
    /\ UNCHANGED <<servers_created, servers_rx, handle, test_pc, running>>
    /\ UNCHANGED <<server_vars, matcher_vars>>

\* Drop for ServerHandle: self.server.take(), server.verify_and_clear().
\* The test may be panicking. When verify_and_clear panics the server is
\* dropped by the unwinding (Drop for Server) and nothing is sent.
HandleDropVerify(t, panicking) ==
    /\ test_pc[t] = "holding"
    /\ LET st == pool_state[handle[t]]
           call == verify_taken("verify_and_clear", st.expected,
                                st.unexpected_requests, panicking, FALSE)
       IN  IF call.outcome = "ok"
           THEN /\ test_pc' = [test_pc EXCEPT ![t] = "verified"]
                /\ UNCHANGED running
           ELSE /\ test_pc' = [test_pc EXCEPT ![t] = "panicked"]
                /\ running' = running \ {handle[t]}
    /\ pool_state' = [pool_state EXCEPT ![handle[t]] = EmptyState]
    /\ UNCHANGED <<servers_created, servers_rx, handle>>
    /\ UNCHANGED <<server_vars, matcher_vars>>

\* Drop for ServerHandle: self.servers_tx.send(server)
HandleDropSend(t) ==
    /\ test_pc[t] = "verified"
    /\ servers_rx' = Append(servers_rx, handle[t])
    /\ test_pc' = [test_pc EXCEPT ![t] = "done"]
    /\ UNCHANGED <<servers_created, handle, pool_state, running>>
    /\ UNCHANGED <<server_vars, matcher_vars>>

PoolNext ==
    \/ \E t \in Tests : GetServerTryRecv(t)
    \/ \E t \in Tests : GetServerCreate(t)
    \/ \E t \in Tests : GetServerRecv(t)
    \/ \E t \in Tests : HandleExpect(t)
    \/ \E t \in Tests, r \in Requests : HandleRequest(t, r)
    \/ \E t \in Tests, p \in BOOLEAN : HandleDropVerify(t, p)
    \/ \E t \in Tests : HandleDropSend(t)

SpecPool == Init /\ [][PoolNext]_vars

(***************************************************************************)
(* What the claims speak of, stated without the code's own operators.      *)
(***************************************************************************)
\* the cardinality as an interval of integers
LowerOf(bounds) ==
    CASE bounds[1].kind = "Included" -> bounds[1].n
      [] bounds[1].kind = "Excluded" -> bounds[1].n + 1
      [] OTHER -> 0

HasUpper(bounds) == bounds[2].kind # "Unbounded"

UpperOf(bounds) ==
    CASE bounds[2].kind = "Included" -> bounds[2].n
      [] bounds[2].kind = "Excluded" -> bounds[2].n - 1

Accepts(bounds, n) ==
    LowerOf(bounds) <= n /\ (HasUpper(bounds) => n <= UpperOf(bounds))

\* the description of a bound in an error
BoundDescription(bounds) ==
    CASE bounds[1].kind = "Unbounded" /\ ~HasUpper(bounds) ->
             [name |-> "Any", a |-> 0, b |-> 0]
      [] bounds[1].kind = "Unbounded" /\ HasUpper(bounds) ->
             [name |-> "AtMost", a |-> UpperOf(bounds), b |-> 0]
      [] bounds[1].kind # "Unbounded" /\ ~HasUpper(bounds) ->
             [name |-> "AtLeast", a |-> LowerOf(bounds), b |-> 0]
      [] OTHER ->
             IF LowerOf(bounds) = UpperOf(bounds)
             THEN [name |-> "Exactly", a |-> UpperOf(bounds), b |-> 0]
             ELSE [name |-> "Between", a |-> LowerOf(bounds),
                   b |-> UpperOf(bounds)]

\* task t leaves the critical section of on_req in this step
Dispatches(t) == pc[t] = "locked" /\ pc'[t] # "locked"

\* a call of verify_and_clear returns or panics in this step
Verifies == last_call'.op \in {"verify_and_clear", "drop"}

(***************************************************************************)
(* C1: when a request matches two or more expectations, the dispatch       *)
(* raises the hit count of the most recently registered of them by one,    *)
(* takes the response from it, and leaves the hit counts of the other      *)
(* matching expectations as they were.                                     *)
(***************************************************************************)
C1_MostRecentMatchWins ==
    [][\A t \in Tasks :
         (Dispatches(t) /\ Cardinality(Matching(req[t])) >= 2) =>
            LET k == MostRecent(Matching(req[t]))
            IN  /\ Len(expected') = Len(expected)
                /\ expected'[k].hit_count = expected[k].hit_count + 1
                /\ \A j \in 1..Len(expected) :
                     j # k => expected'[j].hit_count = expected[j].hit_count
                /\ pc'[t] = "awaiting" =>
                     /\ disp'[t] = k
                     /\ \/ future'[t] = respond(expected[k].responder, req[t])
                        \/ future'[t].resp.matcher =
                              matcher_name(expected[k].matcher)]_vars

\* a request for /foo was counted by the later, narrower expectation and
\* not by the catch-all registered before it
C1_Witness ==
    /\ Len(expected) = 2
    /\ expected[1].matcher = Any
    /\ expected[2].matcher = Path("/foo")
    /\ expected[1].hit_count = 0
    /\ expected[2].hit_count = 1

(***************************************************************************)
(* C2: the dispatch of a matched request raises the hit count first; a     *)
(* count within the upper bound gets the future of the responder, a count  *)
(* beyond it gets a 500 that reports the matcher, the count after the      *)
(* increment and the expected bound.                                       *)
(***************************************************************************)
C2_WithinLimitRespondsElse500 ==
    [][\A t \in Tasks :
         (Dispatches(t) /\ Matching(req[t]) # {}) =>
            LET k == MostRecent(Matching(req[t]))
                e == expected[k]
                n == e.hit_count + 1
            IN  /\ expected'[k].hit_count = n
                /\ pc'[t] = "awaiting"
                /\ IF HasUpper(e.times) /\ n > UpperOf(e.times)
                   THEN future'[t] =
                          [pending |-> FALSE,
                           resp |-> [status |-> 500,
                                     text |-> "Unexpected number of requests for matcher",
                                     matcher |-> matcher_name(e.matcher),
                                     received |-> n,
                                     expected |-> BoundDescription(e.times)]]
                   ELSE future'[t] = respond(e.responder, req[t])]_vars

(***************************************************************************)
(* C3: a request that matches no registered expectation is dispatched:     *)
(* it is appended to the unexpected requests, gets the 500 "No matcher     *)
(* found", and no hit count changes.                                       *)
(***************************************************************************)
C3_UnmatchedIsLoggedAndAnswered ==
    [][\A t \in Tasks :
         /\ (accepts(t) /\ nreq' = nreq + 1)
            => LET r == IF pc'[t] = "locked" THEN req'[t]
                        ELSE last_response'.req
               IN  Matching(r) = {} => pc'[t] = "locked"
         /\ (Dispatches(t) /\ Matching(req[t]) = {})
            => /\ unexpected_requests' = Append(unexpected_requests, req[t])
               /\ HitCounts(expected') = HitCounts(expected)
               /\ pc'[t] = "awaiting"
               /\ future'[t] = NoFuture
         /\ (pc[t] = "awaiting" /\ pc'[t] = "idle" /\ future[t] = NoFuture
               /\ last_response'.resp # NoResponse)
            => /\ last_response'.resp.status = 500
               /\ last_response'.resp.text = "No matcher found"]_vars

(***************************************************************************)
(* C4: on a thread that is not panicking, verify_and_clear panics exactly  *)
(* when some expectation has a hit count outside its bounds or an          *)
(* unexpected request was logged.                                          *)
(***************************************************************************)
C4_VerifyFailsIffViolation ==
    [][(Verifies /\ ~last_call'.panicking) =>
         (last_call'.outcome = "panic" <=>
            \/ \E i \in 1..Len(expected) :
                 ~Accepts(expected[i].times, expected[i].hit_count)
            \/ unexpected_requests # <<>>)]_vars

\* every expectation was satisfied, and the unexpected request alone
\* made the verification fail
C4_Witness ==
    /\ last_call.op \in {"verify_and_clear", "drop"}
    /\ ~last_call.panicking
    /\ last_call.outcome = "panic"
    /\ last_call.msg.kind = "Received the following unexpected requests"
    /\ last_call.taken >= 1

(***************************************************************************)
(* C5: every call of verify_and_clear leaves the registry empty, whether   *)
(* the verification succeeds, fails or is skipped.                         *)
(***************************************************************************)
C5_VerifyLeavesRegistryEmpty ==
    last_call.op \in {"verify_and_clear", "drop"} =>
        expected = <<>> /\ unexpected_requests = <<>>

(***************************************************************************)
(* C6: no increment is lost or doubled under any interleaving: the hit     *)
(* count of every expectation is the number of dispatched requests for     *)
(* which it was the first match in reverse registration order.             *)
(***************************************************************************)
C6_HitCountIsFirstMatches ==
    /\ Len(credited) = Len(expected)
    /\ \A i \in 1..Len(expected) : expected[i].hit_count = credited[i]

\* two requests in flight at once, each counted once by its own
\* expectation of cardinality exactly 1
C6_Witness ==
    /\ Len(expected) = 2
    /\ \A i \in 1..2 :
         /\ RangeDisplay(expected[i].times).text =
               [name |-> "Exactly", a |-> 1, b |-> 0]
         /\ expected[i].hit_count = 1
    /\ expected[1].matcher # expected[2].matcher
    /\ \E t \in Tasks, u \in Tasks :
         t # u /\ pc[t] = "awaiting" /\ pc[u] = "awaiting"

(***************************************************************************)
(* C7: the lock is held only while a request is matched and counted; a     *)
(* task that waits for its response does not hold it.                      *)
(***************************************************************************)
C7_LockFreeWhileAwaiting ==
    /\ \A t \in Tasks : pc[t] = "awaiting" => lock # t
    /\ lock # 0 => pc[lock] = "locked"

\* one task awaits a future that is still pending (the sleep of a Delay,
\* the call of a function responder) while another task holds the lock
C7_Witness ==
    \E t \in Tasks, u \in Tasks :
        /\ pc[t] = "awaiting"
        /\ future[t].pending
        /\ lock = u

(***************************************************************************)
(* C8: once a request was answered with the cardinality 500 of an          *)
(* expectation, the next verification of that registry on a thread that    *)
(* is not panicking fails.                                                 *)
(***************************************************************************)
C8_Answered500FailsVerification ==
    [][(Verifies /\ ~last_call'.panicking /\ answered_500 # {}) =>
         last_call'.outcome = "panic"]_vars

\* a verification failed after a cardinality 500 had been answered
C8_Witness ==
    /\ last_call.op \in {"verify_and_clear", "drop"}
    /\ ~last_call.panicking
    /\ last_call.after_500
    /\ last_call.outcome = "panic"

(***************************************************************************)
(* C9: verify_and_clear on a thread that is panicking does not panic; it   *)
(* prints the unexpected requests if there are any and nothing else.       *)
(***************************************************************************)
C9_NoPanicWhilePanicking ==
    (last_call.op \in {"verify_and_clear", "drop"} /\ last_call.panicking) =>
        /\ last_call.outcome = "ok"
        /\ last_call.printed <=> (last_call.taken_unexpected > 0)

(***************************************************************************)
(* C10: an expectation built without times() is the only expectation and   *)
(* every request was dispatched against it: the verification on a thread   *)
(* that is not panicking passes exactly when one matching request and no   *)
(* other request was received, and with no request at all it reports       *)
(* received 0; expected Exactly(1).                                        *)
(***************************************************************************)
C10_DefaultIsExactlyOne ==
    [][(/\ Verifies
        /\ ~last_call'.panicking
        /\ Len(expected) = 1
        /\ ~expected[1].times_called
        /\ \A r \in Requests : dispatched[<<r, TRUE>>] = 0) =>
         LET hits == Sum(dispatched,
                         {k \in DispatchKeys :
                            evaluate(expected[1].matcher, k[1])})
             others == Sum(dispatched,
                           {k \in DispatchKeys :
                              ~evaluate(expected[1].matcher, k[1])})
         IN  /\ last_call'.outcome = "ok" <=> (hits = 1 /\ others = 0)
             /\ (hits = 0 /\ others = 0) =>
                  /\ last_call'.msg.kind =
                        "Unexpected number of requests for matcher"
                  /\ last_call'.msg.matcher = matcher_name(expected[1].matcher)
                  /\ last_call'.msg.received = 0
                  /\ last_call'.msg.expected =
                        [name |-> "Exactly", a |-> 1, b |-> 0]]_vars

\* the teardown of a server that got no request for its only expectation
C10_Witness ==
    /\ last_call.op = "drop"
    /\ ~last_call.panicking
    /\ last_call.outcome = "panic"
    /\ last_call.taken = 1
    /\ last_call.taken_unexpected = 0
    /\ last_call.msg.received = 0
    /\ last_call.msg.expected = [name |-> "Exactly", a |-> 1, b |-> 0]

(***************************************************************************)
(* C11: a matching request whose hit count after the increment is still    *)
(* below the lower bound of its expectation gets the future of the         *)
(* responder, never an error: a shortfall is reported by verification      *)
(* alone.                                                                  *)
(***************************************************************************)
C11_ShortfallInvisibleToClient ==
    [][\A t \in Tasks :
         (Dispatches(t) /\ Matching(req[t]) # {}) =>
            LET k == MostRecent(Matching(req[t]))
                e == expected[k]
                n == e.hit_count + 1
            IN  n < LowerOf(e.times) =>
                   /\ pc'[t] = "awaiting"
                   /\ future'[t] = respond(e.responder, req[t])]_vars

(***************************************************************************)
(* C12: a cycle over n responders answers its k-th invocation, k counted   *)
(* from 0, with responder k mod n, and its index stays below n. The        *)
(* responder of an expectation is invoked by every hit within the upper    *)
(* bound, so k is the hit count before the increment: over <<200, 404>>    *)
(* with times(4) the four requests get 200, 404, 200, 404.                 *)
(***************************************************************************)
C12_CycleAnswersInOrder ==
    [][\A t \in Tasks :
         (Dispatches(t) /\ Matching(req[t]) # {}) =>
            LET i == MostRecent(Matching(req[t]))
                e == expected[i]
                k == e.hit_count
                n == Len(e.responder.responders)
            IN  e.responder.kind = "Cycle" =>
                   /\ n >= 1
                   /\ expected'[i].responder.idx < n
                   /\ ~(HasUpper(e.times) /\ k + 1 > UpperOf(e.times)) =>
                          /\ pc'[t] = "awaiting"
                          /\ future'[t].resp.status =
                                e.responder.responders[(k % n) + 1].status]_vars

\* the fourth request to the cycle of test_cycle has been answered with 404
C12_Witness ==
    /\ Len(expected) = 1
    /\ expected[1].responder.kind = "Cycle"
    /\ expected[1].hit_count = 4
    /\ expected[1].responder.idx = 0
    /\ last_response.resp.status = 404

(***************************************************************************)
(* C13: times(5) accepts the hit count 5 alone, times(2..) every count     *)
(* from 2, times(..=7) the counts 0 to 7, times(3..6) the counts 3, 4, 5,  *)
(* times(3..=6) the counts 3 to 6 and times(..) every count: verification  *)
(* of the expectation passes exactly with an accepted final count, and no  *)
(* request up to an accepted count gets the cardinality 500.               *)
(***************************************************************************)
StatedArguments ==
    { Usize(5), RangeFrom(2), RangeToInclusive(7), Range(3, 6),
      RangeInclusive(3, 6), RangeFull }

StatedCounts(a, n) ==
    CASE a = Usize(5) -> n = 5
      [] a = RangeFrom(2) -> n >= 2
      [] a = RangeToInclusive(7) -> n \in 0..7
      [] a = Range(3, 6) -> n \in {3, 4, 5}
      [] a = RangeInclusive(3, 6) -> n \in {3, 4, 5, 6}
      [] a = RangeFull -> n >= 0

C13_TimesAcceptsStatedCounts ==
    [][\A a \in StatedArguments :
         (Len(expected) = 1 /\ expected[1].times = into_times(a)) =>
            LET e == expected[1]
            IN  /\ Verifies =>
                      (last_call'.outcome = "ok"
                          <=> StatedCounts(a, e.hit_count))
                /\ \A t \in Tasks :
                      (/\ Dispatches(t)
                       /\ \E m \in (e.hit_count + 1)..(MaxHits + 1) :
                             StatedCounts(a, m))
                      => /\ pc'[t] = "awaiting"
                         /\ future'[t] = respond(e.responder, req[t])]_vars

\* the sixth request to times(3..6) got the 500 and verification has failed
\* on the count 6
C13_Witness ==
    /\ last_call.op = "verify_and_clear"
    /\ last_call.outcome = "panic"
    /\ last_call.after_500
    /\ last_call.msg.received = 6
    /\ last_call.msg.expected = [name |-> "Between", a |-> 3, b |-> 5]

(***************************************************************************)
(* C14: an expectation built with times(..2) expects at most 2 requests:   *)
(* its first two requests get the future of the responder, and             *)
(* verification passes with a final hit count of 0, 1 or 2.                *)
(***************************************************************************)
C14_RangeToTwoIsAtMostTwo ==
    [][(Len(expected) = 1 /\ expected[1].times = into_times(RangeTo(2))) =>
          LET e == expected[1]
          IN  /\ (Verifies /\ e.hit_count \in {0, 1, 2})
                    => last_call'.outcome = "ok"
              /\ \A t \in Tasks :
                    (Dispatches(t) /\ e.hit_count + 1 <= 2)
                    => /\ pc'[t] = "awaiting"
                       /\ future'[t] = respond(e.responder, req[t])]_vars

(***************************************************************************)
(* C15: whenever a cardinality error renders the bound of an expectation,  *)
(* in the 500 of a request beyond the upper bound or in the failure of a   *)
(* verification, the rendering completes and is the description of the     *)
(* bound, with an exclusive upper end x shown as x - 1 and an exclusive    *)
(* lower end x as x + 1.                                                   *)
(***************************************************************************)
C15_RenderingCompletes ==
    [][/\ \A t \in Tasks :
            (Dispatches(t) /\ Matching(req[t]) # {}) =>
               LET e == expected[MostRecent(Matching(req[t]))]
               IN  (HasUpper(e.times) /\ e.hit_count + 1 > UpperOf(e.times))
                   => /\ pc'[t] = "awaiting"
                      /\ future'[t].resp.expected = BoundDescription(e.times)
       /\ (Verifies /\ ~poisoned /\ ~last_call'.panicking) =>
            LET bad == {i \in 1..Len(expected) :
                          ~Accepts(expected[i].times, expected[i].hit_count)}
            IN  bad # {} =>
                  LET i == CHOOSE j \in bad : \A k \in bad : j <= k
                  IN  /\ last_call'.msg.kind =
                            "Unexpected number of requests for matcher"
                      /\ last_call'.msg.expected =
                            BoundDescription(expected[i].times)]_vars

(***************************************************************************)
(* C16: every expectation in the registry has a lower bound that is at     *)
(* most its upper bound when both are finite.                              *)
(***************************************************************************)
C16_LowerAtMostUpper ==
    \A i \in 1..Len(expected) :
        (expected[i].times[1].kind # "Unbounded" /\ HasUpper(expected[i].times))
        => LowerOf(expected[i].times) <= UpperOf(expected[i].times)

(***************************************************************************)
(* C17: the server goes from Running to ShutdownRequested to Stopped and   *)
(* never leaves Stopped; the verification of Drop runs only once the       *)
(* background thread has stopped, after the shutdown was signalled; and    *)
(* from the moment the thread has stopped no request is received or        *)
(* dispatched against the registry.                                        *)
(***************************************************************************)
\* "Dropped" is a stopped server whose Drop has verified
ServerStateOf(s) == IF s = "Dropped" THEN "Stopped" ELSE s

C17_TeardownOrder ==
    [][/\ \/ ServerStateOf(server') = ServerStateOf(server)
          \/ server = "Running" /\ server' = "ShutdownRequested"
          \/ server = "ShutdownRequested" /\ server' = "Stopped"
       /\ (last_call'.op = "drop" /\ last_call' # last_call)
             => server = "Stopped"
       /\ server' # server
             => (last_call'.op = "drop" <=> server' = "Dropped")
       /\ server \in {"Stopped", "Dropped"}
             => /\ nreq' = nreq
                /\ \A t \in Tasks : pc[t] = "idle" /\ pc'[t] = "idle"
                /\ unexpected_requests' \in {unexpected_requests, <<>>}
                /\ expected' \in {expected, <<>>}]_vars

\* a server that took requests was dropped, and its Drop verified a
\* registry that held expectations
C17_Witness ==
    /\ server = "Dropped"
    /\ last_call.op = "drop"
    /\ last_call.taken > 0
    /\ nreq > 0

(***************************************************************************)
(* C18: a request that was received on a connection when the shutdown      *)
(* signal arrives is still dispatched and answered: a connection task      *)
(* leaves a request only by returning its response.                        *)
(***************************************************************************)
C18_InFlightRequestIsAnswered ==
    [][\A t \in Tasks :
         server = "ShutdownRequested" =>
            /\ pc[t] = "locked" => pc'[t] \in {"locked", "awaiting"}
            /\ (pc[t] = "awaiting" /\ pc'[t] # "awaiting")
                  => last_response'.resp # NoResponse]_vars

(***************************************************************************)
(* C19: the failure message of a verification enumerates every             *)
(* unsatisfied expectation (matcher description, received count) and the   *)
(* full list of unexpected requests, however many expectations are         *)
(* unsatisfied. As stated: violated, the message reports one expectation.  *)
(***************************************************************************)
Unsatisfied == {i \in 1..Len(expected) :
                  ~Accepts(expected[i].times, expected[i].hit_count)}

\* the message m reports the expectation e
Reports(m, e) ==
    /\ m.kind = "Unexpected number of requests for matcher"
    /\ m.matcher = matcher_name(e.matcher)
    /\ m.received = e.hit_count

ReportsExpectations(m) ==
    m.kind \in {"Unexpected number of requests for matcher",
                "Received the following unexpected requests"}

C19_MessageEnumeratesAll ==
    [][(Verifies /\ ReportsExpectations(last_call'.msg)) =>
          /\ \A i \in Unsatisfied : Reports(last_call'.msg, expected[i])
          /\ last_call'.msg.unexpected = unexpected_requests]_vars

(***************************************************************************)
(* C19, amended: a failure message that reports an unsatisfied expectation *)
(* reports one, the first unsatisfied expectation in the order of          *)
(* registration (matcher description, received count, rendered bound),     *)
(* with the full list of unexpected requests; a failure with no            *)
(* unsatisfied expectation reports the full list of unexpected requests.   *)
(***************************************************************************)
C19_MessageReportsFirstUnsatisfied ==
    [][(Verifies /\ ReportsExpectations(last_call'.msg)) =>
          /\ last_call'.outcome = "panic"
          /\ last_call'.msg.unexpected = unexpected_requests
          /\ IF Unsatisfied = {}
             THEN /\ last_call'.msg.kind =
                        "Received the following unexpected requests"
                  /\ unexpected_requests # <<>>
             ELSE LET i == CHOOSE j \in Unsatisfied :
                              \A k \in Unsatisfied : j <= k
                  IN  /\ Reports(last_call'.msg, expected[i])
                      /\ last_call'.msg.expected =
                            RangeDisplay(expected[i].times).text]_vars

\* a verification has failed on a registry with two unsatisfied
\* expectations and an unexpected request
C19_Witness ==
    /\ last_call.outcome = "panic"
    /\ last_call.msg.kind = "Unexpected number of requests for matcher"
    /\ last_call.unsatisfied = 2
    /\ last_call.msg.unexpected # <<>>

(***************************************************************************)
(* C20: every call of expect appends one expectation to the end of the     *)
(* registry; expectations leave the registry only in a Drop or a           *)
(* verify_and_clear, and that call has checked each of them against its    *)
(* cardinality: it fails when one of them is unsatisfied.                  *)
(***************************************************************************)
C20_AddedExpectationsAreVerified ==
    [][/\ nexpect' = nexpect + 1
            => /\ Len(expected') = Len(expected) + 1
               /\ SubSeq(expected', 1, Len(expected)) = expected
       /\ Len(expected') < Len(expected)
            => /\ Verifies
               /\ expected' = <<>>
               /\ Unsatisfied # {} => last_call'.outcome = "panic"]_vars

(***************************************************************************)
(* C21: under any interleaving of get_server calls and handle drops, a     *)
(* pool with max_servers = N has created at most N servers and has at     *)
(* most N live handles.                                                    *)
(***************************************************************************)
\* the tests whose handle exists: get_server has returned it and its drop
\* has not ended
LiveHandles == {t \in Tests : test_pc[t] \in {"holding", "verified"}}

C21_PoolStaysWithinMax ==
    /\ servers_created <= MaxServers
    /\ Cardinality(running) <= MaxServers
    /\ Cardinality(LiveHandles) <= MaxServers

\* every server of the pool is held and another test waits in recv
C21_Witness ==
    /\ servers_created = MaxServers
    /\ Cardinality(LiveHandles) = MaxServers
    /\ \E t \in Tests : test_pc[t] = "recv"

(***************************************************************************)
(* C22: no two live handles hold the same server, and a server that a      *)
(* live handle holds is not in the channel of the pool.                    *)
(***************************************************************************)
InChannel == {servers_rx[i] : i \in 1..Len(servers_rx)}

C22_HandleHasUniqueAccess ==
    /\ \A t, u \in LiveHandles : t # u => handle[t] # handle[u]
    /\ \A t \in LiveHandles : handle[t] \notin InChannel
    /\ \A i, j \in 1..Len(servers_rx) : i # j => servers_rx[i] # servers_rx[j]

\* a test holds the server another test has used and returned
C22_Witness ==
    \E t, u \in Tests :
        /\ test_pc[t] = "holding"
        /\ test_pc[u] = "done"
        /\ handle[t] = handle[u]

(***************************************************************************)
(* C23: the drop of a handle, during a panic or not, asserts and clears    *)
(* the expectations of its server and returns the server to the pool; a    *)
(* test that gets a handle finds the registry of its server empty.         *)
(***************************************************************************)
C23_DroppedHandleReturnsCleanServer ==
    [][\A t \in Tests :
         /\ (test_pc[t] \in {"holding", "verified"}
                /\ test_pc'[t] \in {"done", "panicked"})
              => /\ handle[t] \in {servers_rx'[i] : i \in 1..Len(servers_rx')}
                 /\ handle[t] \in running'
                 /\ pool_state'[handle[t]] = EmptyState
         /\ (test_pc[t] # "holding" /\ test_pc'[t] = "holding")
              => pool_state'[handle'[t]] = EmptyState]_vars

(***************************************************************************)
(* C24: while fewer than N handles are live and no drop is under way, a    *)
(* get_server does not block: the channel holds a server or the pool may   *)
(* still create one. A test blocked in recv therefore returns once a       *)
(* handle has been dropped.                                                *)
(***************************************************************************)
C24_GetServerBlocksOnlyAtMax ==
    Cardinality(LiveHandles) < MaxServers
        => (servers_rx # <<>> \/ may_create)


\* C25: evaluating not(P) on an input yields the negation of evaluating P
\* on that input, for every matcher tree P
C25_NotNegates ==
    (evaluation.done /\ the_matcher.kind = "Not")
        => evaluation.x = ~evaluate(the_matcher.inner, the_input)

\* not(P) evaluated where P is a tree of its own and holds of the input
C25_Witness ==
    /\ evaluation.done
    /\ the_matcher.kind = "Not"
    /\ the_matcher.inner.kind = "AllOf"
    /\ Len(the_matcher.inner.inner) = 2
    /\ ~evaluation.x


\* C26: all_of over a list of matchers holds of an input exactly when every
\* matcher of the list holds of it; over the empty list it holds of every
\* input
C26_AllOfIsConjunction ==
    (evaluation.done /\ the_matcher.kind = "AllOf")
        => /\ evaluation.x = (\A i \in 1..Len(the_matcher.inner) :
                                evaluate(the_matcher.inner[i], the_input))
           /\ the_matcher.inner = <<>> => evaluation.x

\* all_of over the empty list has been evaluated
C26_Witness ==
    /\ evaluation.done
    /\ the_matcher = all_of(<<>>)
    /\ evaluation.x

\* C27: any_of over a list of matchers holds of an input exactly when at
\* least one matcher of the list holds of it; over the empty list it holds
\* of no input
C27_AnyOfIsDisjunction ==
    (evaluation.done /\ the_matcher.kind = "AnyOf")
        => /\ evaluation.x = (\E i \in 1..Len(the_matcher.inner) :
                                evaluate(the_matcher.inner[i], the_input))
           /\ the_matcher.inner = <<>> => ~evaluation.x

\* any_of over the empty list has been evaluated
C27_Witness ==
    /\ evaluation.done
    /\ the_matcher = any_of(<<>>)
    /\ ~evaluation.x


\* the bodies that are JSON of an unsigned integer, each with its value:
\* a numeral without a leading zero, blanks allowed on either side
StatedDecodings ==
    LET numerals == {<<<<"0">>, 0>>, <<<<"1">>, 1>>, <<<<"1", "0">>, 10>>,
                     <<<<"1", "1">>, 11>>, <<<<"1", "0", "0">>, 100>>,
                     <<<<"1", "0", "1">>, 101>>, <<<<"1", "1", "0">>, 110>>,
                     <<<<"1", "1", "1">>, 111>>}
        blanks == {[i \in 1..n |-> " "] : n \in 0..3}
    IN  {<<pre \o num[1] \o post, num[2]>> :
            pre \in blanks, post \in blanks, num \in numerals}

\* C28: json_decoded(inner) is false of an input that is not JSON of the
\* target type, the inner matcher not being evaluated; of any other input
\* it is what the inner matcher is of the decoded value; a request whose
\* body cannot be decoded is dispatched to the next expectation
C28_DecodeFailureIsNoMatch ==
    (the_matcher.kind = "Body" /\ the_matcher.inner.kind = "JsonDecoded")
        => LET inner == the_matcher.inner.inner
               values == {d[2] : d \in {q \in StatedDecodings :
                                          q[1] = the_input.body}}
           IN  /\ (evaluation.done /\ values = {})
                    => /\ ~evaluation.x
                       /\ \A k \in 1..Len(evaluation.log) :
                            ~(evaluation.log[k][1] = 2 /\ evaluation.log[k][2] = inner.kind)
               /\ evaluation.done
                    => \A v \in values : evaluation.x = evaluate(inner, v)
               /\ (evaluation.found # 0 /\ values = {})
                    => evaluation.found = 1

\* a request with a malformed body has been evaluated and dispatched
C28_Witness ==
    /\ the_matcher = request_body(json_decoded(Any))
    /\ the_input.body = <<"x">>
    /\ evaluation.done
    /\ ~evaluation.x
    /\ evaluation.found = 1


\* C29: method_path(m, p) gives the same result on a request as
\* all_of![method(m), path(p)], for all method matchers m, path matchers p
\* and requests
C29_MethodPathIsAllOf ==
    (evaluation.done /\ the_matcher.kind = "MethodPath")
        => evaluation.x =
             evaluate(all_of(<<request_method(the_matcher.method),
                               request_path(the_matcher.path)>>), the_input)

\* method_path evaluated on a request whose method is accepted and whose
\* path is not
C29_Witness ==
    /\ evaluation.done
    /\ the_matcher = method_path(Str("GET"), Str("/foo"))
    /\ the_input.method = "GET"
    /\ the_input.path = "/bar"
    /\ ~evaluation.x


\* the contexts a matcher may be called with: any depth, any earlier trace
StartContexts ==
    {[stack_depth |-> d, log |-> l] : d \in 0..2, l \in {<<>>, <<<<0, "Any">>>>}}

\* the nesting level of the k-th trace line: the calls begun and not yet
\* returned from before it
NestingLevel(log, k) ==
    LET returned(j) == log[j][2] \in {"true", "false"}
        begun == Cardinality({j \in 1..(k - 1) : ~returned(j)})
        ended == Cardinality({j \in 1..(k - 1) : returned(j)})
    IN  IF returned(k) THEN begun - ended - 1 ELSE begun - ended

\* C30: the tracing context does not influence matching: evaluate and chain
\* return the boolean the matcher's own matches returns, chain leaves the
\* depth as it found it, every trace line carries the nesting level of its
\* matcher, and the depth is 0 when evaluate returns
C30_ContextIsObservationOnly ==
    evaluation.done
        => /\ \A ctx \in StartContexts :
                /\ matches(the_matcher, the_input, ctx).x = evaluation.x
                /\ chain(the_matcher, the_input, ctx).x = evaluation.x
                /\ chain(the_matcher, the_input, ctx).ctx.stack_depth
                     = ctx.stack_depth
           /\ evaluation.stack_depth = 0
           /\ \A k \in 1..Len(evaluation.log) :
                evaluation.log[k][1] = NestingLevel(evaluation.log, k)

\* a tree whose innermost matcher ran four levels below the top
C30_Witness ==
    /\ evaluation.done
    /\ evaluation.stack_depth = 0
    /\ \E k \in 1..Len(evaluation.log) : evaluation.log[k][1] = 4


\* C31: contains(inner) holds of a sequence exactly when inner holds of at
\* least one element; the elements are tried in sequence order, none after
\* the first that inner holds of; of the empty sequence it is false
C31_ContainsFindsFirst ==
    (evaluation.done /\ the_matcher.kind = "Headers"
        /\ the_matcher.inner.kind = "Contains")
        => LET inner == the_matcher.inner.inner
               xs == the_input.headers
               holds == {i \in 1..Len(xs) : evaluate(inner, xs[i])}
               last == IF holds = {} THEN Len(xs)
                       ELSE CHOOSE i \in holds : \A j \in holds : i <= j
               entered(e) == e[1] = 2 /\ Len(e) = 3
               tried == SelectSeq(evaluation.log, entered)
           IN  /\ evaluation.x = (holds # {})
               /\ Len(tried) = last
               /\ \A i \in 1..last : tried[i][3] = xs[i]
               /\ xs = <<>> => ~evaluation.x

\* the first element is passed over, the second matches
C31_Witness ==
    /\ evaluation.done
    /\ the_matcher = request_headers(contains(key(Str("host"))))
    /\ the_input.headers = <<[k |-> "accept", v |-> "a"],
                             [k |-> "host", v |-> "b"]>>
    /\ evaluation.x


\* the tasks that dispatch their request in this step
Dispatching == {t \in Tasks : pc[t] = "locked" /\ pc'[t] # "locked"}

\* C32: the hit count of an expectation is 0 when it is registered and,
\* while the expectation is in the registry, changes only by +1, in the
\* dispatch of a request the expectation matches
C32_HitCountOnlyGrowsByDispatch ==
    [][Len(expected') >= Len(expected) =>
         /\ \A i \in 1..Len(expected) :
              \/ expected'[i].hit_count = expected[i].hit_count
              \/ /\ expected'[i].hit_count = expected[i].hit_count + 1
                 /\ \E t \in Dispatching :
                      /\ evaluate(expected[i].matcher, req[t])
                      /\ i = find_expectation(expected, req[t])
         /\ \A i \in (Len(expected) + 1)..Len(expected') :
              expected'[i].hit_count = 0]_vars

\* an expectation has been hit twice, by two dispatches
C32_Witness ==
    \E i \in 1..Len(expected) : expected[i].hit_count = 2


\* the hits of an expectation that are within its upper bound
HitsWithinUpper(e) ==
    LET upper == e.times[2]
    IN  {k \in 1..e.hit_count :
            CASE upper.kind = "Included" -> k <= upper.n
              [] upper.kind = "Excluded" -> k < upper.n
              [] OTHER -> TRUE}

\* C33: the responder of an expectation has been invoked as often as the
\* expectation has hits that did not exceed its upper bound; the hits
\* beyond the bound are counted and never reach the responder
C33_ResponderInvokedWithinLimit ==
    \A i \in 1..Len(expected) :
        expected[i].responded = Cardinality(HitsWithinUpper(expected[i]))

\* an expectation with hits beyond its upper bound
C33_Witness ==
    \E i \in 1..Len(expected) :
        /\ expected[i].responded = 4
        /\ expected[i].hit_count = 6


\* C34: the dispatch of one request either raises the hit count of exactly
\* one expectation by 1 and leaves the log of unexpected requests alone, or
\* appends the request to the log and leaves every hit count alone; the
\* number, order, matchers and bounds of the expectations stay as they are
C34_DispatchChangesOneThing ==
    [][\A t \in Dispatching :
         /\ Len(expected') = Len(expected)
         /\ \A i \in 1..Len(expected) :
              /\ expected'[i].matcher = expected[i].matcher
              /\ expected'[i].times = expected[i].times
         /\ \/ /\ unexpected_requests' = unexpected_requests
               /\ \E i \in 1..Len(expected) :
                    /\ expected'[i].hit_count = expected[i].hit_count + 1
                    /\ \A j \in 1..Len(expected) \ {i} :
                         expected'[j].hit_count = expected[j].hit_count
            \/ /\ unexpected_requests' = Append(unexpected_requests, req[t])
               /\ HitCounts(expected') = HitCounts(expected)]_vars

\* a registry that has seen both: a counted hit and a logged request
C34_Witness ==
    /\ unexpected_requests # <<>>
    /\ \E i \in 1..Len(expected) : expected[i].hit_count = 1


\* the requests dispatched since the registry was last reset are each in
\* the registry once: as a hit or as an unexpected request
CountedOnce(d, exps, unexp) ==
    Sum(d, DispatchKeys) = Sum(HitCounts(exps), 1..Len(exps)) + Len(unexp)

\* C35: verify_and_clear takes the whole registry in one critical section
\* while requests are dispatched: every request is counted once, either in
\* the registry that is verified or in the registry after the reset, and a
\* request that was counted before the reset is not counted after it
C35_VerifyTakesWholeRegistry ==
    [][/\ CountedOnce(dispatched, expected, unexpected_requests)
       /\ CountedOnce(dispatched', expected', unexpected_requests')
       /\ (Verifies /\ ~poisoned)
            => /\ lock = 0 /\ lock' = 0
               /\ expected' = <<>> /\ unexpected_requests' = <<>>
               /\ last_call'.unsatisfied =
                    Cardinality({i \in 1..Len(expected) :
                                   ~hit_count_is_valid(expected[i].times,
                                                       expected[i].hit_count)})
               /\ pc' = pc /\ future' = future]_vars

\* a registry verified while a counted request still waits for its
\* response, and a later request dispatched against the reset registry
C35_Witness ==
    /\ \E t \in Tasks : pc[t] = "awaiting" /\ disp[t] = 0 /\ future[t] # NoFuture
    /\ expected = <<>>
    /\ unexpected_requests # <<>>


\* the responses of the cycles of ResponderExpectations, in their order
StatedCycle == <<200, 404>>

CycleExpectation(e) ==
    \/ e.responder.kind = "Cycle"
    \/ e.responder.kind = "Delay" /\ e.responder.and_then.kind = "Cycle"

\* C36: with requests for a cycle in flight at once, the i-th request
\* within the limit, in the order of dispatch and counted from 0, gets the
\* response of responder i mod n, whenever its response completes, also
\* for a cycle inside delay_and_then; a request beyond the limit gets the
\* cardinality error and leaves the cycle where it is
C36_CyclePositionTakenAtDispatch ==
    [][\A t \in Tasks :
         /\ (Dispatches(t) /\ expected # <<>> /\ CycleExpectation(expected[1]))
              => LET n == Cardinality(HitsWithinUpper(expected[1]))
                 IN  IF Cardinality(HitsWithinUpper(expected'[1])) = n + 1
                     THEN future'[t].resp.status = StatedCycle[(n % 2) + 1]
                     ELSE /\ future'[t].resp.status = 500
                          /\ expected'[1].responder = expected[1].responder
         /\ (pc[t] = "awaiting" /\ pc'[t] = "awaiting")
              => future'[t].resp = future[t].resp
         /\ (pc[t] = "awaiting" /\ pc'[t] = "idle")
              => last_response'.resp = future[t].resp]_vars

\* the third request has its response while the second, dispatched before
\* it, still sleeps
C36_Witness ==
    /\ expected # <<>>
    /\ expected[1].responder.kind = "Cycle"
    /\ expected[1].hit_count = 3
    /\ last_response.resp.status = 200
    /\ \E t \in Tasks :
         pc[t] = "awaiting" /\ future[t].pending /\ future[t].resp.status = 404


\* C39: serving a request never changes the function responder stored in
\* the expectation: every request calls a clone of the stored closure,
\* after the lock is released, so what the closure changed in its captured
\* state for one request is not there for a later request
C39_FunctionResponderIsCloned ==
    [][\A t \in Tasks :
         (Dispatches(t) /\ expected # <<>> /\ expected[1].responder.kind = "Fn")
           => /\ expected'[1].responder = expected[1].responder
              /\ expected'[1].responder.calls = 0
              /\ lock' = 0
              /\ future'[t].pending
              /\ future'[t].resp.status = 200]_vars

\* the counting function has served a second request like the first
C39_Witness ==
    /\ expected # <<>>
    /\ expected[1].responder.kind = "Fn"
    /\ expected[1].hit_count = 2
    /\ last_response.resp.status = 200


\* C37: in the dispatch of a request the matchers are evaluated from the
\* expectation added last backwards, each once: those added after the
\* selected expectation with result false, the selected one with result
\* true, none added before it; when nothing matches, every matcher once
C37_MatchersEvaluatedBackwards ==
    [][\A t \in Tasks :
         Dispatches(t)
           => LET n == Len(expected)
                  selected ==
                      IF unexpected_requests' # unexpected_requests THEN 0
                      ELSE CHOOSE i \in 1..n :
                             expected'[i].hit_count # expected[i].hit_count
                  first == IF selected = 0 THEN 1 ELSE selected
                  evaluated == find_from(expected, req[t], n).evaluated
              IN  /\ evaluated = [k \in 1..(n - first + 1) |-> n - k + 1]
                  /\ \A k \in 1..Len(evaluated) :
                       evaluate(expected[evaluated[k]].matcher, req[t])
                         = (evaluated[k] = selected)]_vars

\* the expectation added last was selected and the one before it, which
\* matches every request, was passed over
C37_Witness ==
    /\ Len(expected) = 2
    /\ expected[1].matcher = Any
    /\ expected[1].hit_count = 0
    /\ expected[2].matcher = Path("/foo")
    /\ expected[2].hit_count = 1


\* C38: all_of and any_of evaluate their matchers from left to right in
\* list order; all_of evaluates none after the first that returns false,
\* any_of none after the first that returns true
C38_ListsShortCircuit ==
    (evaluation.done /\ the_matcher.kind \in {"AllOf", "AnyOf"})
        => LET ms == the_matcher.inner
               decides == {i \in 1..Len(ms) :
                             evaluate(ms[i], the_input)
                               = (the_matcher.kind = "AnyOf")}
               last == IF decides = {} THEN Len(ms)
                       ELSE CHOOSE i \in decides : \A j \in decides : i <= j
               member(e) == e[1] = 1 /\ Len(e) = 3
               tried == SelectSeq(evaluation.log, member)
           IN  /\ Len(tried) = last
               /\ \A i \in 1..last :
                    tried[i][2] = ms[i].kind /\ tried[i][3] = the_input

\* all_of stopped at its first matcher, which returned false
C38_Witness ==
    /\ evaluation.done
    /\ the_matcher = all_of(<<Path("/foo"), request_method(Str("GET"))>>)
    /\ the_input.path = "/bar"
    /\ the_input.method = "GET"
    /\ ~evaluation.x

\* C40: dropping a Server terminates. Once the shutdown is signalled, with
\* whatever connections open at that moment, every connection task ends,
\* the background thread is joined and the verification of the drop runs.
C40_DropTerminates ==
    (server = "ShutdownRequested")
        ~> (server = "Dropped" /\ last_call.op = "drop")

\* the shutdown is signalled while one connection is in the middle of a
\* request body and another waits for a delayed response
C40_Witness ==
    /\ server = "ShutdownRequested"
    /\ \E t, u \in Tasks :
         /\ pc[t] = "reading"
         /\ pc[u] = "awaiting" /\ future[u] # NoFuture /\ future[u].pending

====
